---- MODULE Spec2Model ----
(***************************************************************************)
(* Model of app/processor.py of stock-backtest-execution:                  *)
(*   validate_input_message  - the schema gate                             *)
(*   simulate_execution      - fill price, fee, cost and status            *)
(*                                                                         *)
(* Representation.                                                         *)
(*  - A Python value is a record [t, s, n]: t is the Python type           *)
(*    ("str", "int", "float", "none"), s the characters of a str, n the    *)
(*    number of an int, or of a float counted in millionths (1e-6).        *)
(*  - A message (dict) is a function from its keys to values.              *)
(*  - Floats are decimal fixed point.  Input floats lie on the 0.001 grid, *)
(*    so price * 1.001, price * 0.999 and the cost are exact in            *)
(*    millionths; round(x, 4) rounds to a multiple of 100 millionths.      *)
(*    The double -0.0 is the number 0 here (-0.0 < 0 is False in Python).  *)
(*  - Strings given to float() / int() are over the characters             *)
(*    0-9 . + - and letters; whitespace, exponents, "inf"/"nan" and "_"    *)
(*    are outside the input sets.                                          *)
(***************************************************************************)
EXTENDS Integers, Sequences, FiniteSets, TLC

VARIABLES pc, raw, validated, simInput, out, err, log

vars == <<pc, raw, validated, simInput, out, err, log>>

-----------------------------------------------------------------------------
(* Python values *)

PyStr(chars) == [t |-> "str", s |-> chars, n |-> 0]
PyInt(i) == [t |-> "int", s |-> <<>>, n |-> i]
PyFloat(micro) == [t |-> "float", s |-> <<>>, n |-> micro]
None == [t |-> "none", s |-> <<>>, n |-> 0]
Absent == [t |-> "absent", s |-> <<>>, n |-> 0]

EmptyMsg == [k \in {} |-> Absent]

Micro == 1000 * 1000

BUY == <<"B", "U", "Y">>
SELL == <<"S", "E", "L", "L">>
HOLD == <<"H", "O", "L", "D">>
UNKNOWN == <<"U", "N", "K", "N", "O", "W", "N">>
EXECUTED == <<"e", "x", "e", "c", "u", "t", "e", "d">>
NOOP == <<"n", "o", "o", "p">>

-----------------------------------------------------------------------------
(* float() and int() *)

Digits == <<"0", "1", "2", "3", "4", "5", "6", "7", "8", "9">>
DigitSet == {Digits[i] : i \in 1..Len(Digits)}
DigitVal(c) == (CHOOSE i \in 1..Len(Digits) : Digits[i] = c) - 1

RECURSIVE ParseNat(_)
ParseNat(s) ==
    IF s = <<>> THEN 0
    ELSE ParseNat(SubSeq(s, 1, Len(s) - 1)) * 10 + DigitVal(s[Len(s)])

RECURSIVE Pow10(_)
Pow10(k) == IF k = 0 THEN 1 ELSE 10 * Pow10(k - 1)

AllDigits(s) == \A i \in 1..Len(s) : s[i] \in DigitSet
HasSign(s) == s # <<>> /\ s[1] \in {"-", "+"}
Unsigned(s) == IF HasSign(s) THEN Tail(s) ELSE s
SignOf(s) == IF s # <<>> /\ s[1] = "-" THEN 0 - 1 ELSE 1
DotAt(s) == {i \in 1..Len(s) : s[i] = "."}
IntPart(s) == IF DotAt(s) = {} THEN s ELSE SubSeq(s, 1, (CHOOSE i \in DotAt(s) : TRUE) - 1)
FracPart(s) == IF DotAt(s) = {} THEN <<>> ELSE SubSeq(s, (CHOOSE i \in DotAt(s) : TRUE) + 1, Len(s))

\* the decimal literals float(str) accepts: [sign] digits [. digits], one digit at least
IsFloatLiteral(s) ==
    LET u == Unsigned(s) IN
        /\ Cardinality(DotAt(u)) <= 1
        /\ AllDigits(IntPart(u))
        /\ AllDigits(FracPart(u))
        /\ Len(IntPart(u)) + Len(FracPart(u)) >= 1
        /\ Len(FracPart(u)) <= 6

\* the literals int(str) accepts: [sign] digits
IsIntLiteral(s) == Unsigned(s) # <<>> /\ AllDigits(Unsigned(s))

ParseFloat(s) ==
    LET u == Unsigned(s) IN
        SignOf(s) * (ParseNat(IntPart(u)) * Micro
                     + ParseNat(FracPart(u)) * Pow10(6 - Len(FracPart(u))))

Ok(v) == [raised |-> "none", v |-> v]
Raise(kind) == [raised |-> kind, v |-> None]

\* float() that falls back to 100.0 on a string it cannot parse
float_Lenient(x) ==
    CASE x.t = "float" -> Ok(x)
      [] x.t = "int" -> Ok(PyFloat(x.n * Micro))
      [] x.t = "str" -> IF IsFloatLiteral(x.s) THEN Ok(PyFloat(ParseFloat(x.s)))
                        ELSE Ok(PyFloat(100 * Micro))
      [] OTHER -> Raise("TypeError")

\* float(x): line 48
float(x) ==
    CASE x.t = "float" -> Ok(x)
      [] x.t = "int" -> Ok(PyFloat(x.n * Micro))
      [] x.t = "str" -> IF IsFloatLiteral(x.s) THEN Ok(PyFloat(ParseFloat(x.s)))
                        ELSE Raise("ValueError")
      [] OTHER -> Raise("TypeError")

\* truncation toward zero of a count of millionths
Trunc(micro) == IF micro >= 0 THEN micro \div Micro ELSE 0 - ((0 - micro) \div Micro)

\* int(x): line 49
int(x) ==
    CASE x.t = "int" -> Ok(x)
      [] x.t = "float" -> Ok(PyInt(Trunc(x.n)))
      [] x.t = "str" -> IF IsIntLiteral(x.s)
                        THEN Ok(PyInt(SignOf(x.s) * ParseNat(Unsigned(x.s))))
                        ELSE Raise("ValueError")
      [] OTHER -> Raise("TypeError")

\* round(x, 4) of a count of millionths: to a multiple of 100, ties to even
round4(x) ==
    LET q == x \div 100
        r == x % 100
    IN  IF r < 50 THEN q * 100
        ELSE IF r > 50 THEN (q + 1) * 100
        ELSE IF q % 2 = 0 THEN q * 100 ELSE (q + 1) * 100

-----------------------------------------------------------------------------
(* simulate_execution: the arithmetic *)

\* slippage_pct = 0.001 and fee_per_share = 0.005, in millionths
slippage_pct == 1000
fee_per_share == 5000

\* product of two floats that lie on the 0.001 grid, exact in millionths
FMul(a, b) == (a \div 1000) * (b \div 1000)

\* message.get(key) written without its default
Get_NoDefault(message, key, default) == IF key \in DOMAIN message THEN message[key] ELSE None

Get(message, key, default) == IF key \in DOMAIN message THEN message[key] ELSE default

\* slippage applied to trades only: a HOLD fills at the quoted price
fill_price_TradesOnly(action, price) ==
    IF action = PyStr(BUY) THEN FMul(price, Micro + slippage_pct)
    ELSE IF action = PyStr(SELL) THEN FMul(price, Micro - slippage_pct)
    ELSE price

\* line 57; action is a value, price a count of millionths
fill_price(action, price) ==
    FMul(price, IF action = PyStr(BUY) THEN Micro + slippage_pct ELSE Micro - slippage_pct)

\* a flat fee per order instead of a fee per share
total_fee_Flat(quantity) == IF quantity = 0 THEN 0 ELSE fee_per_share

\* line 58; quantity is an integer
total_fee(quantity) == quantity * fee_per_share

\* the sell side without its sign
execution_cost_Unsigned(action, fill, quantity, fee) ==
    IF action = PyStr(BUY) THEN fill * quantity + fee
    ELSE fill * quantity - fee

\* lines 59-63; fill is the unrounded fill price
execution_cost(action, fill, quantity, fee) ==
    IF action = PyStr(BUY) THEN fill * quantity + fee
    ELSE (0 - 1) * (fill * quantity - fee)

\* only a BUY counts as executed
status_BuyOnly(action) == IF action = PyStr(BUY) THEN PyStr(EXECUTED) ELSE PyStr(NOOP)

\* line 70
status(action) == IF action \in {PyStr(BUY), PyStr(SELL)} THEN PyStr(EXECUTED) ELSE PyStr(NOOP)

Derived == {"fill_price", "slippage_pct", "execution_fee", "execution_cost", "status"}

\* lines 65-71: the result dict
Result(action, price, quantity) ==
    LET fill == fill_price(action, price)
        fee == total_fee(quantity)
    IN  [fill_price |-> PyFloat(round4(fill)),
         slippage_pct |-> PyFloat(slippage_pct),
         execution_fee |-> PyFloat(round4(fee)),
         execution_cost |-> PyFloat(round4(execution_cost(action, fill, quantity, fee))),
         status |-> status(action)]

\* {**result, **message}: the input wins on a key collision
Merge_InputWins(message, result) ==
    [k \in DOMAIN message \cup DOMAIN result |->
        IF k \in DOMAIN message THEN message[k] ELSE result[k]]

\* line 74: {**message, **result}
Merge(message, result) ==
    [k \in DOMAIN message \cup DOMAIN result |->
        IF k \in DOMAIN result THEN result[k] ELSE message[k]]

-----------------------------------------------------------------------------
(* Log entries and exceptions *)

LogEntry(level, event, arg) == [level |-> level, event |-> event, arg |-> arg]

\* an exception: its class and its args; an arg is a text (isRecord FALSE)
\* or would be a record (isRecord TRUE, rec the record)
TextArg(text) == [isRecord |-> FALSE, text |-> text, rec |-> EmptyMsg]
Exc(kind, args) == [kind |-> kind, args |-> args]
NoExc == Exc("none", <<>>)

\* lines 46-74.  The outcome: the exception raised (or none), the value
\* returned and the log entries emitted, in order.
simulate_execution(message) ==
    LET symbol == Get(message, "symbol", PyStr(UNKNOWN))
        action == Get(message, "action", PyStr(HOLD))
        price == float(Get(message, "price", PyFloat(100 * Micro)))
        quantity == int(Get(message, "quantity", PyInt(0)))
    IN  IF price.raised # "none"
        THEN [exc |-> Exc(price.raised, <<TextArg("float() argument")>>),
              value |-> EmptyMsg, log |-> <<>>]
        ELSE IF quantity.raised # "none"
        THEN [exc |-> Exc(quantity.raised, <<TextArg("int() argument")>>),
              value |-> EmptyMsg, log |-> <<>>]
        ELSE LET result == Result(action, price.v.n, quantity.v.n)
             IN  [exc |-> NoExc,
                  value |-> Merge(message, result),
                  log |-> << LogEntry("info", "Simulating execution",
                                      [action |-> action, quantity |-> quantity.v,
                                       symbol |-> symbol]),
                             LogEntry("debug", "Execution result", result) >>]

-----------------------------------------------------------------------------
(* validate_input_message *)

Required == {"symbol", "action", "price", "quantity"}

\* app.utils.validate_data.validate_message_schema: the required keys are
\* present, symbol is text, action is of the vocabulary, price is a
\* number and quantity an integer
validate_message_schema(message) ==
    /\ Required \subseteq DOMAIN message
    /\ message["symbol"].t = "str"
    /\ message["action"] \in {PyStr(BUY), PyStr(SELL), PyStr(HOLD)}
    /\ message["price"].t \in {"int", "float"}
    /\ message["quantity"].t = "int"

\* the error is logged but not raised
validate_input_message_NoRaise(message) ==
    IF ~validate_message_schema(message)
    THEN [exc |-> NoExc,
          value |-> message,
          log |-> << LogEntry("debug", "Validating message schema", EmptyMsg),
                     LogEntry("error", "Invalid message schema", message) >>]
    ELSE [exc |-> NoExc,
          value |-> message,
          log |-> << LogEntry("debug", "Validating message schema", EmptyMsg) >>]

\* the condition of the check inverted
validate_input_message_Inverted(message) ==
    IF validate_message_schema(message)
    THEN [exc |-> Exc("ValueError", <<TextArg("Invalid message format")>>),
          value |-> EmptyMsg,
          log |-> << LogEntry("debug", "Validating message schema", EmptyMsg),
                     LogEntry("error", "Invalid message schema", message) >>]
    ELSE [exc |-> NoExc,
          value |-> message,
          log |-> << LogEntry("debug", "Validating message schema", EmptyMsg) >>]

\* the validated message rebuilt from the required fields alone
validate_input_message_Projected(message) ==
    IF ~validate_message_schema(message)
    THEN [exc |-> Exc("ValueError", <<TextArg("Invalid message format")>>),
          value |-> EmptyMsg,
          log |-> << LogEntry("debug", "Validating message schema", EmptyMsg),
                     LogEntry("error", "Invalid message schema", message) >>]
    ELSE [exc |-> NoExc,
          value |-> [k \in Required |-> message[k]],
          log |-> << LogEntry("debug", "Validating message schema", EmptyMsg) >>]

\* lines 29-33
validate_input_message(message) ==
    IF ~validate_message_schema(message)
    THEN [exc |-> Exc("ValueError", <<TextArg("Invalid message format")>>),
          value |-> EmptyMsg,
          log |-> << LogEntry("debug", "Validating message schema", EmptyMsg),
                     LogEntry("error", "Invalid message schema", message) >>]
    ELSE [exc |-> NoExc,
          value |-> message,
          log |-> << LogEntry("debug", "Validating message schema", EmptyMsg) >>]

-----------------------------------------------------------------------------
(* The messages of the model *)

MaxPriceMills == 12
MaxQuantity == 3

XYZ == <<"X", "Y", "Z">>
AAPL == <<"A", "A", "P", "L">>

SymbolValues == {Absent, PyStr(AAPL)}
ActionValues == {Absent, PyStr(BUY), PyStr(SELL), PyStr(HOLD), PyStr(XYZ)}
PriceValues ==
    {Absent, None, PyInt(100), PyFloat(100 * Micro), PyFloat(50 * 1000),
     PyFloat(0 - 2500 * 1000),
     PyStr(<<"2", ".", "5">>), PyStr(<<"a", "b", "c">>), PyStr(<<>>)}
    \cup {PyFloat(i * 1000) : i \in 0..MaxPriceMills}
QuantityValues ==
    {Absent, None, PyInt(0 - 1), PyInt(10), PyFloat(2700 * 1000),
     PyStr(<<"7">>), PyStr(<<"2", ".", "5">>), PyStr(<<"a", "b", "c">>)}
    \cup {PyInt(i) : i \in 0..MaxQuantity}

\* fields beside the four the simulator reads: none, one that collides
\* with a derived field, or two of which one collides
Extras ==
    {EmptyMsg,
     [status |-> PyStr(<<"n", "e", "w">>)],
     [order_id |-> PyInt(7), fill_price |-> PyFloat(Micro)]}

Present(f) == {k \in DOMAIN f : f[k] # Absent}
Message(sym, act, price, qty, extra) ==
    LET f == [symbol |-> sym, action |-> act, price |-> price, quantity |-> qty]
    IN  [k \in Present(f) \cup DOMAIN extra |-> IF k \in DOMAIN extra THEN extra[k] ELSE f[k]]

Messages ==
    {Message(sym, act, price, qty, extra) :
        sym \in SymbolValues, act \in ActionValues, price \in PriceValues,
        qty \in QuantityValues, extra \in Extras}

-----------------------------------------------------------------------------
(* State machine *)

Init ==
    /\ pc = "idle"
    /\ raw = EmptyMsg
    /\ validated = EmptyMsg
    /\ simInput = EmptyMsg
    /\ out = EmptyMsg
    /\ err = NoExc
    /\ log = <<>>

\* a call of validate_input_message(message) whose success leads to `next`
DoValidate(message, next) ==
    LET r == validate_input_message(message) IN
        /\ log' = log \o r.log
        /\ IF r.exc.kind = "none"
           THEN pc' = next /\ validated' = r.value /\ err' = err
           ELSE pc' = "rejected" /\ validated' = EmptyMsg /\ err' = r.exc
        /\ UNCHANGED <<simInput, out>>

\* a call of simulate_execution(message)
DoSimulate(message) ==
    LET r == simulate_execution(message) IN
        /\ simInput' = message
        /\ log' = log \o r.log
        /\ IF r.exc.kind = "none"
           THEN pc' = "sim_done" /\ out' = r.value /\ err' = err
           ELSE pc' = "sim_failed" /\ out' = EmptyMsg /\ err' = r.exc

Reset ==
    /\ pc' = "idle"
    /\ raw' = EmptyMsg
    /\ validated' = EmptyMsg
    /\ simInput' = EmptyMsg
    /\ out' = EmptyMsg
    /\ err' = NoExc
    /\ log' = <<>>

(* The pipeline: raw record -> Validator -> validated record -> Simulator *)

Receive ==
    /\ pc = "idle"
    /\ pc' = "received"
    /\ \E m \in Messages : raw' = m
    /\ UNCHANGED <<validated, simInput, out, err, log>>

Validate ==
    /\ pc = "received"
    /\ DoValidate(raw, "validated")
    /\ UNCHANGED raw

Simulate ==
    /\ pc = "validated"
    /\ DoSimulate(validated)
    /\ UNCHANGED <<raw, validated>>

Deliver ==
    /\ pc \in {"rejected", "sim_done", "sim_failed"}
    /\ Reset

Next ==
    \/ Receive
    \/ Validate
    \/ Simulate
    \/ Deliver

Spec == Init /\ [][Next]_vars

(* The two functions called directly, on any message *)

CallValidate ==
    /\ pc = "idle"
    /\ \E m \in Messages :
        /\ raw' = m
        /\ DoValidate(m, "validated")

Revalidate ==
    /\ pc = "validated"
    /\ DoValidate(validated, "revalidated")
    /\ UNCHANGED raw

CallSimulate ==
    /\ pc = "idle"
    /\ \E m \in Messages : DoSimulate(m)
    /\ UNCHANGED <<raw, validated>>

Return ==
    /\ pc # "idle"
    /\ Reset

NextCalls ==
    \/ CallValidate
    \/ Revalidate
    \/ CallSimulate
    \/ Return

SpecCalls == Init /\ [][NextCalls]_vars

-----------------------------------------------------------------------------
(* Properties *)

SimCalled == pc \in {"sim_done", "sim_failed"}

\* what the simulator reads from its input, defaults included
UsedAction == IF "action" \in DOMAIN simInput THEN simInput["action"] ELSE PyStr(HOLD)
UsedPrice == float(IF "price" \in DOMAIN simInput THEN simInput["price"] ELSE PyFloat(100 * Micro)).v.n
UsedQuantity == int(IF "quantity" \in DOMAIN simInput THEN simInput["quantity"] ELSE PyInt(0)).v.n

\* price * 1.001 and price * 0.999 for a price (in millionths) on the 0.001 grid
TimesBuyFactor(p) == (p \div 1000) * 1001
TimesSellFactor(p) == (p \div 1000) * 999

ErrorLogged(message) ==
    \E i \in 1..Len(log) : log[i].level = "error" /\ log[i].arg = message

\* C1 as stated: the error raised for a record the schema check rejects
\* carries that record.
C1_ErrorCarriesRecord ==
    pc = "rejected" =>
        \E i \in 1..Len(err.args) : err.args[i].isRecord /\ err.args[i].rec = raw

\* C1, amended: for every raw record the schema check rejects, validation
\* fails with ValueError("Invalid message format"), whose only argument is
\* that text; the raw record is in the error-level log entry, not in the
\* error; no validated message and no result exists for the request and the
\* simulator is never entered.
C1_RejectedRaisesAndLogs ==
    (pc \notin {"idle", "received"} /\ ~validate_message_schema(raw)) =>
        /\ pc = "rejected"
        /\ err = Exc("ValueError", <<TextArg("Invalid message format")>>)
        /\ ErrorLogged(raw)
        /\ validated = EmptyMsg
        /\ simInput = EmptyMsg
        /\ out = EmptyMsg

C1_Witness ==
    /\ pc = "rejected"
    /\ Required \subseteq DOMAIN raw
    /\ raw["price"] = PyStr(<<"a", "b", "c">>)
    /\ ErrorLogged(raw)

\* C2: in the pipeline the simulator is entered only on the record that
\* validate_input_message returned for the request, which the schema check
\* accepts; a rejected record never reaches it.
C2_SimulateOnlyAfterValidation ==
    /\ (SimCalled \/ \E i \in 1..Len(log) : log[i].event = "Simulating execution") =>
           /\ validate_message_schema(raw)
           /\ simInput = raw
           /\ simInput = validated
    /\ pc = "rejected" => (simInput = EmptyMsg /\ out = EmptyMsg)

C2_Witness ==
    /\ pc = "sim_done"
    /\ simInput = raw
    /\ validate_message_schema(raw)
    /\ Len(log) = 3

\* C3: status is "executed" exactly when the action read (HOLD when absent)
\* is BUY or SELL, and "noop" otherwise; no other status is produced.
C3_StatusIffTrade ==
    pc = "sim_done" =>
        /\ out["status"] \in {PyStr(EXECUTED), PyStr(NOOP)}
        /\ out["status"] = PyStr(EXECUTED) <=> UsedAction \in {PyStr(BUY), PyStr(SELL)}
        /\ "action" \notin DOMAIN simInput => out["status"] = PyStr(NOOP)

C3_Witness ==
    /\ pc = "sim_done"
    /\ "action" \in DOMAIN simInput
    /\ simInput["action"] = PyStr(SELL)
    /\ out["status"] = PyStr(EXECUTED)

\* C4: fill_price is round(price * 1.001, 4) for BUY and
\* round(price * 0.999, 4) for every other action, price being the input
\* price as a float, or 100.0 when absent.
C4_FillPrice ==
    pc = "sim_done" =>
        out["fill_price"] =
            PyFloat(round4(IF UsedAction = PyStr(BUY) THEN TimesBuyFactor(UsedPrice)
                           ELSE TimesSellFactor(UsedPrice)))

C4_Witness ==
    /\ pc = "sim_done"
    /\ UsedAction = PyStr(XYZ)
    /\ "price" \in DOMAIN simInput
    /\ simInput["price"] = PyFloat(100 * Micro)
    /\ out["fill_price"] = PyFloat(99900000)

\* the precondition of C5: a message the schema accepts, with a positive
\* price and a non-negative integer quantity
ValidatedPositive(m) ==
    /\ validate_message_schema(m)
    /\ float(m["price"]).v.n > 0
    /\ m["quantity"].n >= 0

\* C5 as stated: for a validated message BUY gives a positive and SELL a
\* negative execution_cost.
C5_SignBySide ==
    (pc = "sim_done" /\ ValidatedPositive(simInput)) =>
        /\ UsedAction = PyStr(BUY) => out["execution_cost"].n > 0
        /\ UsedAction = PyStr(SELL) => out["execution_cost"].n < 0

\* C5, amended: for a validated message execution_cost is
\* round(fill * quantity + fee, 4) for BUY and round(-(fill * quantity - fee), 4)
\* for every other action (fill unrounded); it is positive for a BUY of at
\* least one share, negative for a SELL of at least one share at a price of
\* at least 0.01, and zero for either side when quantity is 0.
C5_CostFormulaAndSign ==
    (pc = "sim_done" /\ ValidatedPositive(simInput)) =>
        LET q == UsedQuantity
            fee == q * 5000
            cost == out["execution_cost"].n
        IN  /\ UsedAction = PyStr(BUY) =>
                   /\ cost = round4(TimesBuyFactor(UsedPrice) * q + fee)
                   /\ q >= 1 => cost > 0
            /\ UsedAction # PyStr(BUY) =>
                   cost = round4(0 - (TimesSellFactor(UsedPrice) * q - fee))
            /\ (UsedAction = PyStr(SELL) /\ q >= 1 /\ UsedPrice >= 10000) => cost < 0
            /\ (UsedAction \in {PyStr(BUY), PyStr(SELL)} /\ q = 0) => cost = 0

C5_Witness ==
    /\ pc = "sim_done"
    /\ ValidatedPositive(simInput)
    /\ UsedAction = PyStr(SELL)
    /\ UsedQuantity >= 1
    /\ out["execution_cost"].n < 0

\* C6: execution_fee is round(quantity * 0.005, 4), quantity being the input
\* quantity as an integer, or 0 when absent, whatever the action and price.
C6_FeeFromQuantity ==
    pc = "sim_done" => out["execution_fee"] = PyFloat(round4(UsedQuantity * 5000))

C6_Witness ==
    /\ pc = "sim_done"
    /\ "quantity" \in DOMAIN simInput
    /\ simInput["quantity"] = PyFloat(2700 * 1000)
    /\ UsedAction = PyStr(HOLD)
    /\ out["execution_fee"] = PyFloat(10000)

\* the result dict, as the debug entry logged it
LoggedResult == log[Len(log)].arg

\* C7: the returned record has the input's keys and the five derived keys
\* and no other; an input field that is not a derived key keeps its value;
\* a derived key holds the derived value, also when the input had that key.
C7_MergeDerivedWins ==
    pc = "sim_done" =>
        /\ DOMAIN out = DOMAIN simInput \cup Derived
        /\ \A k \in DOMAIN simInput \ Derived : out[k] = simInput[k]
        /\ DOMAIN LoggedResult = Derived
        /\ \A k \in Derived : out[k] = LoggedResult[k]
        /\ out["status"] \in {PyStr(EXECUTED), PyStr(NOOP)}
        /\ out["fill_price"].t = "float"

C7_Witness ==
    /\ pc = "sim_done"
    /\ "fill_price" \in DOMAIN simInput
    /\ "order_id" \in DOMAIN simInput
    /\ out["fill_price"] # simInput["fill_price"]
    /\ out["order_id"] = simInput["order_id"]

\* C8: validate_input_message returns an accepted record with no field
\* added, removed or changed, and validating the returned record again
\* succeeds and returns the same record.
C8_ValidateIdempotent ==
    /\ pc \in {"validated", "revalidated"} => (validated = raw /\ err = NoExc)
    /\ pc = "rejected" => ~validate_message_schema(raw)

C8_Witness ==
    /\ pc = "revalidated"
    /\ validated = raw
    /\ "order_id" \in DOMAIN raw
    /\ Len(log) = 2

\* C9 as stated: for the input {} the output has symbol "UNKNOWN", action
\* "HOLD", price 100.0, quantity 0, fill_price 99.9, execution_fee 0.0,
\* execution_cost -99.9 and status "noop".
C9_EmptyInputOutput ==
    (SimCalled /\ simInput = EmptyMsg) =>
        /\ pc = "sim_done"
        /\ Required \subseteq DOMAIN out
        /\ out["symbol"] = PyStr(UNKNOWN)
        /\ out["action"] = PyStr(HOLD)
        /\ out["price"] = PyFloat(100 * Micro)
        /\ out["quantity"] = PyInt(0)
        /\ out["fill_price"] = PyFloat(99900000)
        /\ out["execution_fee"] = PyFloat(0)
        /\ out["execution_cost"] = PyFloat(0 - 99900000)
        /\ out["status"] = PyStr(NOOP)

\* C9, amended: for the input {} the calculation uses symbol "UNKNOWN",
\* action "HOLD", price 100.0 and quantity 0, but these defaults are not
\* written to the output: its keys are the five derived ones, with
\* fill_price 99.9, slippage_pct 0.001, execution_fee 0.0, execution_cost 0
\* and status "noop".
C9_EmptyInputDerivedOnly ==
    (SimCalled /\ simInput = EmptyMsg) =>
        /\ pc = "sim_done"
        /\ DOMAIN out = Derived
        /\ out["fill_price"] = PyFloat(99900000)
        /\ out["slippage_pct"] = PyFloat(1000)
        /\ out["execution_fee"] = PyFloat(0)
        /\ out["execution_cost"] = PyFloat(0)
        /\ out["status"] = PyStr(NOOP)
        /\ log[1].arg = [action |-> PyStr(HOLD), quantity |-> PyInt(0),
                         symbol |-> PyStr(UNKNOWN)]

C9_Witness ==
    /\ pc = "sim_done"
    /\ simInput = EmptyMsg
    /\ out["execution_cost"] = PyFloat(0)
    /\ "symbol" \notin DOMAIN out

\* a price field that is present and is text float() cannot parse
PriceUnparseable ==
    /\ "price" \in DOMAIN simInput
    /\ simInput["price"].t = "str"
    /\ ~IsFloatLiteral(simInput["price"].s)

\* fill_price for a price of 100.0
FillAtDefaultPrice ==
    PyFloat(round4(IF UsedAction = PyStr(BUY) THEN TimesBuyFactor(100 * Micro)
                   ELSE TimesSellFactor(100 * Micro)))

====
